---------------------------- MODULE Spec2Model ----------------------------
(***************************************************************************)
(* Transfer ganging engine of OdooPrintPlanner                             *)
(* (custom_addons/transfer_ganging/models/ganging_engine.py and            *)
(* project_task.py) as a state machine: one run of analyze_and_gang_tasks  *)
(* over a task list, a set of LAY columns and the project's cost settings. *)
(*                                                                         *)
(* Lengths are fixed-point integers: widths in 1/WScale mm, heights in     *)
(* 1/HScale mm, so that every dimension of SIZE_DIMS is exact.  Scores     *)
(* and costs, floats in the source, are compared as exact rationals.       *)
(***************************************************************************)
EXTENDS Integers, Sequences, FiniteSets, TLC

(***************************************************************************)
(* Geometry table (project_task.py)                                        *)
(***************************************************************************)
WScale == 4
HScale == 100
SHEET_W_MM == 310
SHEET_H_MM == 440
SheetW == SHEET_W_MM * WScale
SheetH == SHEET_H_MM * HScale
SHEET_AREA_MM2 == SheetW * SheetH

\* SIZE_DIMS.get(size, (0, 0)), as <<width * WScale, height * HScale>>
get_size_dims_mm(size) ==
    CASE size = "a3"      -> <<1188, 42000>>
      [] size = "a4"      -> <<1236, 21950>>
      [] size = "a5"      -> <<618, 21922>>
      [] size = "a6"      -> <<618, 10975>>
      [] size = "295x100" -> <<1236, 10975>>
      [] size = "95x95"   -> <<412, 10975>>
      [] size = "100x70"  -> <<309, 10975>>
      [] size = "60x60"   -> <<309, 7317>>
      [] size = "290x140" -> <<1236, 14600>>
      [] OTHER            -> <<0, 0>>

(***************************************************************************)
(* Generic helpers                                                         *)
(***************************************************************************)
RECURSIVE SumSeq(_)
SumSeq(s) == IF s = <<>> THEN 0 ELSE Head(s) + SumSeq(Tail(s))

RECURSIVE Replicate(_, _)
Replicate(x, n) == IF n <= 0 THEN <<>> ELSE <<x>> \o Replicate(x, n - 1)

SetMin(S) == CHOOSE x \in S : \A y \in S : x <= y

\* Python's stable sort by descending key: sorted(s, key=..., reverse=True)
\* and sorted(s, key=lambda x: -key).  keys[i] is the key of s[i].
RankDesc(keys, i) ==
    1 + Cardinality({j \in DOMAIN keys :
                        keys[j] > keys[i] \/ (keys[j] = keys[i] /\ j < i)})

StableSortDesc(s, keys) ==
    [p \in 1..Len(s) |-> s[CHOOSE i \in DOMAIN s : RankDesc(keys, i) = p]]

(***************************************************************************)
(* Utilization calculator (ganging_engine.py)                              *)
(* A layout is a sequence of <<size, quantity>> in the dict's order.       *)
(***************************************************************************)
RECURSIVE ExpandLayout(_)
ExpandLayout(layout) ==
    IF layout = <<>> THEN <<>>
    ELSE Replicate(get_size_dims_mm(Head(layout)[1]), Head(layout)[2])
            \o ExpandLayout(Tail(layout))

LayoutHasInvalidSize(layout) ==
    \E i \in DOMAIN layout :
        get_size_dims_mm(layout[i][1])[1] <= 0 \/ get_size_dims_mm(layout[i][1])[2] <= 0

\* a shelf loop that leaves out the items it cannot place and reports the rest
RECURSIVE ShelfPackPartial(_, _, _, _)
ShelfPackPartial(items, i, shelves, total_used_area) ==
    IF i > Len(items) THEN total_used_area
    ELSE IF \E k \in DOMAIN shelves :
                shelves[k][1] + items[i][1] <= SheetW /\ items[i][2] <= shelves[k][2]
         THEN ShelfPackPartial(items, i + 1,
                [shelves EXCEPT
                    ![SetMin({k \in DOMAIN shelves :
                                shelves[k][1] + items[i][1] <= SheetW
                                    /\ items[i][2] <= shelves[k][2]})][1] = @ + items[i][1]],
                total_used_area + items[i][1] * items[i][2])
         ELSE IF SumSeq([k \in DOMAIN shelves |-> shelves[k][2]]) + items[i][2] <= SheetH
                    /\ items[i][1] <= SheetW
              THEN ShelfPackPartial(items, i + 1, Append(shelves, items[i]),
                                    total_used_area + items[i][1] * items[i][2])
              ELSE ShelfPackPartial(items, i + 1, shelves, total_used_area)
\* One pass of the shelf loop over items[i..]; shelves are <<used width, height>>.
\* The result is the used area, or 0 as soon as one item cannot be placed.
RECURSIVE ShelfPack(_, _, _, _)
ShelfPack(items, i, shelves, total_used_area) ==
    IF i > Len(items) THEN total_used_area
    ELSE LET item_w == items[i][1]
             item_h == items[i][2]
             fitting == {k \in DOMAIN shelves :
                            shelves[k][1] + item_w <= SheetW /\ item_h <= shelves[k][2]}
             new_shelf_y == SumSeq([k \in DOMAIN shelves |-> shelves[k][2]])
         IN  IF fitting # {}
             THEN LET k == SetMin(fitting)
                  IN  ShelfPack(items, i + 1,
                                [shelves EXCEPT ![k] = <<shelves[k][1] + item_w, shelves[k][2]>>],
                                total_used_area + item_w * item_h)
             ELSE IF new_shelf_y + item_h <= SheetH /\ item_w <= SheetW
                  THEN ShelfPack(items, i + 1, Append(shelves, <<item_w, item_h>>),
                                 total_used_area + item_w * item_h)
                  ELSE 0

\* _calculate_template_utilization: the used area (utilization * SHEET_AREA_MM2),
\* 0 when the layout is infeasible.
calculate_template_utilization(layout) ==
    IF LayoutHasInvalidSize(layout) THEN 0
    ELSE LET items_to_place == ExpandLayout(layout)
             sorted_items == StableSortDesc(items_to_place,
                                [i \in DOMAIN items_to_place |-> items_to_place[i][2]])
             used == ShelfPack(sorted_items, 1, <<>>, 0)
         IN  IF used <= SHEET_AREA_MM2 THEN used ELSE 0

(***************************************************************************)
(* Template catalog (ganging_engine.py, _get_mixed_layout_templates)       *)
(***************************************************************************)
Templates ==
    << [layout |-> << <<"a4", 1>>, <<"a5", 1>>, <<"100x70", 4>> >>, priority |-> 15],
       [layout |-> << <<"a5", 2>>, <<"a6", 2>>, <<"100x70", 4>> >>, priority |-> 15],
       [layout |-> << <<"a4", 1>>, <<"a6", 2>>, <<"100x70", 8>> >>, priority |-> 14],
       [layout |-> << <<"a4", 2>> >>, priority |-> 8],
       [layout |-> << <<"a5", 4>> >>, priority |-> 8],
       [layout |-> << <<"a6", 8>> >>, priority |-> 8],
       [layout |-> << <<"a5", 1>>, <<"a6", 3>>, <<"100x70", 6>> >>, priority |-> 7],
       [layout |-> << <<"a4", 1>>, <<"95x95", 6>> >>, priority |-> 7],
       [layout |-> << <<"a5", 2>>, <<"95x95", 8>> >>, priority |-> 7],
       [layout |-> << <<"295x100", 1>>, <<"a6", 2>>, <<"60x60", 6>> >>, priority |-> 6],
       [layout |-> << <<"290x140", 1>>, <<"a6", 1>>, <<"100x70", 4>> >>, priority |-> 6],
       [layout |-> << <<"100x70", 40>> >>, priority |-> 12],
       [layout |-> << <<"95x95", 28>> >>, priority |-> 12],
       [layout |-> << <<"60x60", 72>> >>, priority |-> 11],
       [layout |-> << <<"295x100", 2>> >>, priority |-> 5],
       [layout |-> << <<"a4", 1>>, <<"a6", 1>>, <<"295x100", 2>> >>, priority |-> 5] >>

\* The templates with their computed utilization (as used area)
TemplatesWithUtilization ==
    [i \in DOMAIN Templates |->
        [layout |-> Templates[i].layout, priority |-> Templates[i].priority,
         utilization |-> calculate_template_utilization(Templates[i].layout)]]

\* _get_mixed_layout_templates: only the physically feasible templates
get_mixed_layout_templates ==
    SelectSeq(TemplatesWithUtilization,
              LAMBDA t : t.utilization > 0 /\ t.utilization <= SHEET_AREA_MM2)

\* sorted(layout_templates, key=priority, reverse=True) of _find_best_a3_combination
sorted_templates ==
    StableSortDesc(get_mixed_layout_templates,
                   [i \in DOMAIN get_mixed_layout_templates |->
                        get_mixed_layout_templates[i].priority])

(***************************************************************************)
(* State                                                                   *)
(***************************************************************************)
VARIABLES
    tasks,                  \* the task records handed to the run, by task id 1..Len
    gang_a3_sheet_cost,     \* project.gang_a3_sheet_cost
    gang_screen_cost,       \* project.gang_screen_cost
    lay_columns,            \* per LAY column in name order: tasks outside the run resting in it
    stage_id,               \* task id -> LAY column it rests in, 0 for a non-LAY stage
    pc,                     \* position of the run
    run_allocations,        \* task id -> quantity allocated in this run
    lay_assignments,        \* insertion-ordered dict: <<[stage, items: <<[task_id, quantity]>>]>>
    lay_stages,             \* the queue of available LAY columns
    total_allocated_qty,
    total_remaining_qty,
    compatibility_groups,   \* groups still to be processed: <<[key, tasks]>>
    unprocessed_groups,     \* insertion-ordered dict: <<[key, tasks]>>
    remaining_tasks,        \* locals of _process_compatibility_group
    current_lay_stage,      \* 0 is None
    sheets_in_current_lay,
    allocated_qty,
    compatible_pools,       \* pools still to be processed by _process_cross_compatibility
    result,                 \* the returned notification
    sheets,                 \* history: every committed combination, <<[stage, combination, pass]>>
    call                    \* a direct call of one of the engine's functions: [op, args, out]

vars == <<tasks, gang_a3_sheet_cost, gang_screen_cost, lay_columns, stage_id, pc,
          run_allocations, lay_assignments, lay_stages, total_allocated_qty,
          total_remaining_qty, compatibility_groups, unprocessed_groups,
          remaining_tasks, current_lay_stage, sheets_in_current_lay, allocated_qty,
          compatible_pools, result, sheets, call>>

TaskIds == DOMAIN tasks

(***************************************************************************)
(* Task helpers (project_task.py)                                          *)
(***************************************************************************)
Max0(x) == IF x > 0 THEN x ELSE 0
Min2(x, y) == IF x < y THEN x ELSE y

FitsOfDims(size, dims) ==
    IF size = "a3" THEN 0
    ELSE IF dims[1] <= 0 \/ dims[2] <= 0 THEN 0
    ELSE IF dims[1] > SheetW \/ dims[2] > SheetH THEN 0
    ELSE (SheetW \div dims[1]) * (SheetH \div dims[2])

\* _get_fits_on_a3: no rotation, no gutters
get_fits_on_a3(size) == FitsOfDims(size, get_size_dims_mm(size))

\* waste_cost < screen_cost, with waste_cost = sheets_needed * a3_sheet_cost *
\* waste_quantity / total_capacity and total_capacity = sheets_needed * fits_on_a3 > 0
WasteCostBelow(quantity, fits_on_a3, sheets_needed, a3_sheet_cost, screen_cost) ==
    sheets_needed * a3_sheet_cost * (sheets_needed * fits_on_a3 - quantity)
        < screen_cost * (sheets_needed * fits_on_a3)

\* a test that takes a size that fits no sheet for cost-effective
CostEffectiveWhateverFits(quantity, fits_on_a3, a3_sheet_cost, screen_cost) ==
    IF fits_on_a3 = 0 THEN TRUE
    ELSE WasteCostBelow(quantity, fits_on_a3, (quantity + fits_on_a3 - 1) \div fits_on_a3,
                        a3_sheet_cost, screen_cost)
CostEffectiveOfFits(quantity, fits_on_a3, a3_sheet_cost, screen_cost) ==
    IF fits_on_a3 = 0 THEN FALSE
    ELSE WasteCostBelow(quantity, fits_on_a3, (quantity + fits_on_a3 - 1) \div fits_on_a3,
                        a3_sheet_cost, screen_cost)

\* is_cost_effective_to_gang(size, quantity) of a task under the project's costs
is_cost_effective_to_gang(t, a3_sheet_cost, screen_cost) ==
    CostEffectiveOfFits(t.quantity, get_fits_on_a3(t.size), a3_sheet_cost, screen_cost)

\* deadline buckets whose second value is 90
DeadlinePriorityHigh90(t) ==
    IF ~t.has_deadline THEN 0
    ELSE IF t.days <= 1 THEN 100
    ELSE IF t.days <= 3 THEN 90
    ELSE IF t.days <= 7 THEN 25
    ELSE 0
\* the deadline part of get_gang_priority
DeadlinePriority(t) ==
    IF ~t.has_deadline THEN 0
    ELSE IF t.days <= 1 THEN 100
    ELSE IF t.days <= 3 THEN 50
    ELSE IF t.days <= 7 THEN 25
    ELSE 0

get_gang_priority(t, a3_sheet_cost, screen_cost) ==
    DeadlinePriority(t)
        + (IF is_cost_effective_to_gang(t, a3_sheet_cost, screen_cost) THEN 10 ELSE 0)

\* a remaining quantity that forgets the tasks resting in a LAY column
QuantityWhateverStage(t, st) == t.quantity
\* get_remaining_quantity of a task resting in stage st (0: not a LAY column)
get_remaining_quantity(t, st) == IF st # 0 THEN 0 ELSE t.quantity

\* the same on the run's state, as maps over the task ids
Priority == [id \in TaskIds |->
                get_gang_priority(tasks[id], gang_a3_sheet_cost, gang_screen_cost)]
CostEffective == [id \in TaskIds |->
                is_cost_effective_to_gang(tasks[id], gang_a3_sheet_cost, gang_screen_cost)]
Remaining == [id \in TaskIds |-> get_remaining_quantity(tasks[id], stage_id[id])]

\* a selector that forgets what the run has already allocated
AvailableIgnoringAllocations(remaining, allocations) == remaining
\* available_qty = max(0, task.get_remaining_quantity() - already_allocated)
AvailableOf(remaining, allocations) ==
    [id \in DOMAIN remaining |-> Max0(remaining[id] - allocations[id])]
Available(allocations) == AvailableOf(Remaining, allocations)

\* a sort that leaves the tasks in the order given
SortUnsorted(ids, prio) == ids
\* sorted(ids, key=priority, reverse=True)
SortByPriority(ids, prio) == StableSortDesc(ids, [i \in DOMAIN ids |-> prio[ids[i]]])

(***************************************************************************)
(* Combination selector (ganging_engine.py)                                *)
(* A combination is a sequence of [task |-> id, quantity |-> n]; avail and *)
(* prio map the task ids to available quantity and gang priority.          *)
(***************************************************************************)
\* a draw that takes all that every task has available
DrawGreedyAll(ids, qty_needed, avail) ==
    [k \in DOMAIN ids |-> [task |-> ids[k], quantity |-> avail[ids[k]]]]
\* "Allocate from highest priority tasks": draw up to qty_needed from ids in order
RECURSIVE DrawGreedy(_, _, _)
DrawGreedy(ids, qty_needed, avail) ==
    IF ids = <<>> \/ qty_needed <= 0 THEN <<>>
    ELSE IF Min2(avail[Head(ids)], qty_needed) > 0
         THEN <<[task |-> Head(ids), quantity |-> Min2(avail[Head(ids)], qty_needed)]>>
                \o DrawGreedy(Tail(ids), qty_needed - Min2(avail[Head(ids)], qty_needed), avail)
         ELSE DrawGreedy(Tail(ids), qty_needed, avail)

\* a total that counts the items of a combination instead of their quantities
CombinationLen(combination) == Len(combination)
CombinationQty(combination) ==
    SumSeq([i \in DOMAIN combination |-> combination[i].quantity])

CombinationPriority(combination, prio) ==
    SumSeq([i \in DOMAIN combination |->
                prio[combination[i].task] * combination[i].quantity])

\* available_tasks[size]: the tasks of the pool of that size with available quantity
AvailableOfSize(pool, size, avail) ==
    SelectSeq(pool, LAMBDA id : tasks[id].size = size /\ size # "a3" /\ avail[id] > 0)

\* the keys of available_tasks in insertion order
RECURSIVE AvailableSizes(_, _, _)
AvailableSizes(pool, avail, seen) ==
    IF pool = <<>> THEN <<>>
    ELSE IF tasks[Head(pool)].size # "a3" /\ avail[Head(pool)] > 0
            /\ tasks[Head(pool)].size \notin seen
         THEN <<tasks[Head(pool)].size>>
                \o AvailableSizes(Tail(pool), avail, seen \cup {tasks[Head(pool)].size})
         ELSE AvailableSizes(Tail(pool), avail, seen)

QtyOf(ids, avail) == SumSeq([i \in DOMAIN ids |-> avail[ids[i]]])

\* a loop that takes every template for feasible
TemplateAlwaysFeasible(layout, pool, avail) == TRUE
TemplateFeasible(layout, pool, avail) ==
    \A i \in DOMAIN layout :
        QtyOf(AvailableOfSize(pool, layout[i][1], avail), avail) >= layout[i][2]

\* the combination drawn for a feasible template, size by size in the layout's order
RECURSIVE TemplateDraw(_, _, _, _)
TemplateDraw(layout, pool, avail, prio) ==
    IF layout = <<>> THEN <<>>
    ELSE DrawGreedy(SortByPriority(AvailableOfSize(pool, Head(layout)[1], avail), prio),
                    Head(layout)[2], avail)
            \o TemplateDraw(Tail(layout), pool, avail, prio)

\* score = template_priority*300 + utilization*2000 + avg_task_priority*25 + total_items*8
\* as whole + fracnum / (UtilUnit * items), with utilization*2000 = used area / UtilUnit
UtilUnit == SHEET_AREA_MM2 \div 2000

ScoreOf(template, total_items, total_task_priority) ==
    [whole |-> template.priority * 300 + total_items * 8
                    + (template.utilization \div UtilUnit)
                    + ((25 * total_task_priority) \div total_items),
     fracnum |-> (template.utilization % UtilUnit) * total_items
                    + ((25 * total_task_priority) % total_items) * UtilUnit,
     items |-> total_items]

TemplateScore(template, combination, prio) ==
    ScoreOf(template, CombinationQty(combination), CombinationPriority(combination, prio))

ZeroScore == [whole |-> 0, fracnum |-> 0, items |-> 1]

\* s1 > s2; the fractional parts are below 2, so a difference of 2 decides
ScoreGreater(s1, s2) ==
    IF s1.whole - s2.whole >= 2 THEN TRUE
    ELSE IF s1.whole - s2.whole <= -2 THEN FALSE
    ELSE (s1.whole - s2.whole) * UtilUnit * s1.items * s2.items
            + s1.fracnum * s2.items - s2.fracnum * s1.items > 0

\* the loop over the sorted templates from the i-th on: the best combination
RECURSIVE TryTemplates(_, _, _, _, _, _, _)
RECURSIVE TryTemplate(_, _, _, _, _, _, _, _)
RECURSIVE KeepBest(_, _, _, _, _, _, _, _, _)
TryTemplates(templates, i, pool, avail, prio, best_combination, best_score) ==
    IF i > Len(templates) THEN best_combination
    ELSE TryTemplate(templates, i, pool, avail, prio, best_combination, best_score,
                     TemplateDraw(templates[i].layout, pool, avail, prio))

TryTemplate(templates, i, pool, avail, prio, best_combination, best_score, combination) ==
    IF TemplateFeasible(templates[i].layout, pool, avail) /\ combination # <<>>
    THEN KeepBest(templates, i, pool, avail, prio, best_combination, best_score,
                  combination, TemplateScore(templates[i], combination, prio))
    ELSE TryTemplates(templates, i + 1, pool, avail, prio, best_combination, best_score)

KeepBest(templates, i, pool, avail, prio, best_combination, best_score, combination, score) ==
    IF ScoreGreater(score, best_score)
    THEN TryTemplates(templates, i + 1, pool, avail, prio, combination, score)
    ELSE TryTemplates(templates, i + 1, pool, avail, prio, best_combination, best_score)

\* score = utilization*800 + avg_priority*10 + qty_allocated, as num / den
SingleScoreOf(qty_allocated, total_priority, max_fit) ==
    [num |-> 800 * qty_allocated * qty_allocated + 10 * total_priority * max_fit
                + qty_allocated * qty_allocated * max_fit,
     den |-> max_fit * qty_allocated]

SingleSizeScore(combination, max_fit, prio) ==
    SingleScoreOf(CombinationQty(combination), CombinationPriority(combination, prio), max_fit)

\* _find_single_size_combination over the sizes of available_tasks in dict order
RECURSIVE TrySingleSizes(_, _, _, _, _, _)
RECURSIVE TrySingleSize(_, _, _, _, _, _, _, _)
RECURSIVE KeepBestSingle(_, _, _, _, _, _, _, _)
TrySingleSizes(sizes, pool, avail, prio, best_combination, best_score) ==
    IF sizes = <<>> THEN best_combination
    ELSE TrySingleSize(sizes, pool, avail, prio, best_combination, best_score,
                       get_fits_on_a3(Head(sizes)),
                       SortByPriority(AvailableOfSize(pool, Head(sizes), avail), prio))

TrySingleSize(sizes, pool, avail, prio, best_combination, best_score, max_fit, sorted_tasks) ==
    IF max_fit <= 0
    THEN TrySingleSizes(Tail(sizes), pool, avail, prio, best_combination, best_score)
    ELSE KeepBestSingle(sizes, pool, avail, prio, best_combination, best_score,
                        DrawGreedy(sorted_tasks, max_fit, avail), max_fit)

KeepBestSingle(sizes, pool, avail, prio, best_combination, best_score, combination, max_fit) ==
    IF combination # <<>>
       /\ SingleSizeScore(combination, max_fit, prio).num * best_score.den
            > best_score.num * SingleSizeScore(combination, max_fit, prio).den
    THEN TrySingleSizes(Tail(sizes), pool, avail, prio, combination,
                        SingleSizeScore(combination, max_fit, prio))
    ELSE TrySingleSizes(Tail(sizes), pool, avail, prio, best_combination, best_score)

find_single_size_combination(pool, avail, prio) ==
    TrySingleSizes(AvailableSizes(pool, avail, {}), pool, avail, prio,
                   <<>>, [num |-> 0, den |-> 1])

\* an A3 branch that puts all of the task's available quantity on the sheet
FirstWithAllQty(a3_tasks, avail) ==
    IF SelectSeq(a3_tasks, LAMBDA id : avail[id] >= 1) # <<>>
    THEN <<[task |-> Head(SelectSeq(a3_tasks, LAMBDA id : avail[id] >= 1)),
            quantity |-> avail[Head(SelectSeq(a3_tasks, LAMBDA id : avail[id] >= 1))]]>>
    ELSE <<>>
\* the A3 branch: the first A3 task by priority with available quantity, alone
FirstWithQty(a3_tasks, avail) ==
    IF SelectSeq(a3_tasks, LAMBDA id : avail[id] >= 1) # <<>>
    THEN <<[task |-> Head(SelectSeq(a3_tasks, LAMBDA id : avail[id] >= 1)), quantity |-> 1]>>
    ELSE <<>>

A3Combination(pool, avail, prio) ==
    FirstWithQty(SortByPriority(SelectSeq(pool, LAMBDA id : tasks[id].size = "a3"), prio),
                 avail)

\* "if not best_combination: return self._find_single_size_combination(...)"
OrSingleSize(best_combination, pool, avail, prio) ==
    IF best_combination = <<>> THEN find_single_size_combination(pool, avail, prio)
    ELSE best_combination

BestCombination(pool, avail, prio) ==
    IF pool = <<>> THEN <<>>
    ELSE IF \E i \in DOMAIN pool : tasks[pool[i]].size = "a3"
         THEN A3Combination(pool, avail, prio)
    ELSE IF AvailableSizes(pool, avail, {}) = <<>> THEN <<>>
    ELSE OrSingleSize(TryTemplates(sorted_templates, 1, pool, avail, prio, <<>>, ZeroScore),
                      pool, avail, prio)

\* _find_best_a3_combination(tasks, run_allocations)
find_best_a3_combination(pool, allocations) ==
    BestCombination(pool, Available(allocations), Priority)

\* _find_best_cross_compatible_combination
find_best_cross_compatible_combination(pool, allocations) ==
    IF pool = <<>> THEN <<>> ELSE find_best_a3_combination(pool, allocations)

(***************************************************************************)
(* Gang/skip decision (ganging_engine.py, _should_gang_combination)        *)
(***************************************************************************)
HasCritical(combination, prio) ==
    \E i \in DOMAIN combination : prio[combination[i].task] >= 100

CostEffectiveCount(combination, cost_effective) ==
    Cardinality({i \in DOMAIN combination : cost_effective[combination[i].task]})

\* a decision that asks for more than half of the jobs to be cost-effective
ShouldGangStrictMajority(combination, prio, cost_effective) ==
    IF combination = <<>> THEN FALSE
    ELSE IF HasCritical(combination, prio) THEN TRUE
    ELSE 2 * CostEffectiveCount(combination, cost_effective) > Len(combination)
\* a decision without the urgency override
ShouldGangByCost(combination, prio, cost_effective) ==
    IF combination = <<>> THEN FALSE
    ELSE 2 * CostEffectiveCount(combination, cost_effective) >= Len(combination)
ShouldGang(combination, prio, cost_effective) ==
    IF combination = <<>> THEN FALSE
    ELSE IF HasCritical(combination, prio) THEN TRUE
    ELSE 2 * CostEffectiveCount(combination, cost_effective) >= Len(combination)

should_gang_combination(combination) == ShouldGang(combination, Priority, CostEffective)

(***************************************************************************)
(* LAY columns and the run's dictionaries                                  *)
(***************************************************************************)
OVERLOAD_LIMIT == 20
MAX_SHEETS_PER_LAY == 12

\* a queue of all LAY columns, overloaded or not
AllLayStages(columns, st) == [c \in DOMAIN columns |-> c]
\* _get_lay_stages: the LAY columns in name order holding fewer than 20 tasks,
\* counting the tasks of the store (columns) and those of the run (st)
get_lay_stages(columns, st) ==
    SelectSeq([c \in DOMAIN columns |-> c],
              LAMBDA c : columns[c] + Cardinality({id \in DOMAIN st : st[id] = c})
                            < OVERLOAD_LIMIT)

DictGet(dict, key) ==
    IF \E i \in DOMAIN dict : dict[i].key = key
    THEN dict[CHOOSE i \in DOMAIN dict : dict[i].key = key].tasks
    ELSE <<>>

\* a map that records one unit per item whatever its quantity
AssignmentItemsUnit(combination) ==
    [k \in DOMAIN combination |-> [task_id |-> combination[k].task, quantity |-> 1]]
AssignmentItems(combination) ==
    [k \in DOMAIN combination |->
        [task_id |-> combination[k].task, quantity |-> combination[k].quantity]]

\* lay_assignments[stage].append(item) for every item of a combination
AppendAssignments(assignments, stage, combination) ==
    [i \in DOMAIN assignments |->
        IF assignments[i].stage = stage
        THEN [stage |-> stage,
              items |-> assignments[i].items \o AssignmentItems(combination)]
        ELSE assignments[i]]

\* "if current_lay_stage.id not in lay_assignments: lay_assignments[...] = []"
InitAssignments(assignments, stage) ==
    IF stage # 0 /\ ~(\E i \in DOMAIN assignments : assignments[i].stage = stage)
    THEN Append(assignments, [stage |-> stage, items |-> <<>>])
    ELSE assignments

\* the quantity a combination holds of a task
QtyInCombination(combination, id) ==
    SumSeq([k \in DOMAIN combination |->
                IF combination[k].task = id THEN combination[k].quantity ELSE 0])

\* no sheet is committed through the AddAllocations of a loop iteration
AddAllocationsNone(allocations, combination) == allocations

\* run_allocations[task.id] += quantity for every item of a combination
AddAllocations(allocations, combination) ==
    [id \in DOMAIN allocations |-> allocations[id] + QtyInCombination(combination, id)]

\* the tasks of a combination that are fully consumed under allocations
FullyConsumed(combination, allocations, remaining) ==
    {combination[k].task : k \in {j \in DOMAIN combination :
        allocations[combination[j].task] >= remaining[combination[j].task]}}

RemoveTasks(ids, gone) == SelectSeq(ids, LAMBDA id : id \notin gone)

(***************************************************************************)
(* Compatibility grouper (ganging_engine.py)                               *)
(***************************************************************************)
\* a grouper that puts every product type in one group
GroupKeyMerged(t) == "full_colour"
GroupKey(t) ==
    CASE t.product_type = "zero"          -> "zero_group"
      [] t.product_type = "full_colour"   -> "full_colour"
      [] t.product_type = "single_colour" -> "single_colour_group"
      [] t.product_type = "metal"         -> "metal"
      [] OTHER                            -> "unknown_group"

\* the keys of the groups dict in insertion order
RECURSIVE GroupKeys(_, _)
GroupKeys(keys, seen) ==
    IF keys = <<>> THEN <<>>
    ELSE IF Head(keys) \in seen THEN GroupKeys(Tail(keys), seen)
    ELSE <<Head(keys)>> \o GroupKeys(Tail(keys), seen \cup {Head(keys)})

GroupsOf(ts, keys) ==
    [i \in DOMAIN keys |->
        [key |-> keys[i],
         tasks |-> SelectSeq([id \in DOMAIN ts |-> id],
                             LAMBDA id : GroupKey(ts[id]) = keys[i])]]

\* _group_by_compatibility
group_by_compatibility(ts) ==
    GroupsOf(ts, GroupKeys([id \in DOMAIN ts |-> GroupKey(ts[id])], {}))

PoolOf(first, second) == IF first # <<>> \/ second # <<>> THEN << first \o second >> ELSE <<>>

PoolsOf(full_colour_tasks, single_colour_tasks, metal_tasks) ==
    PoolOf(full_colour_tasks,
           SelectSeq(single_colour_tasks, LAMBDA id : tasks[id].color_variant = "white"))
    \o PoolOf(metal_tasks,
              SelectSeq(single_colour_tasks, LAMBDA id : tasks[id].color_variant = "silver"))
    \o PoolOf(SelectSeq(single_colour_tasks,
                        LAMBDA id : tasks[id].color_variant \notin {"white", "silver"}),
              <<>>)

\* _create_cross_compatibility_pools
create_cross_compatibility_pools(groups) ==
    PoolsOf(DictGet(groups, "full_colour"), DictGet(groups, "single_colour_group"),
            DictGet(groups, "metal"))

(***************************************************************************)
(* Finalizer (ganging_engine.py, _finalize_task_assignments_with_lay_mapping) *)
(***************************************************************************)
\* the (stage, task) pairs of the map in the order the first loop visits them
RECURSIVE FlattenAssignments(_)
FlattenAssignments(assignments) ==
    IF assignments = <<>> THEN <<>>
    ELSE [k \in DOMAIN Head(assignments).items |->
            [stage |-> Head(assignments).stage,
             task_id |-> Head(assignments).items[k].task_id]]
         \o FlattenAssignments(Tail(assignments))

\* a first loop that moves a task as soon as anything of it is allocated
RECURSIVE FinalizeMappedPartial(_, _, _, _)
FinalizeMappedPartial(visits, allocations, st, assigned_count) ==
    IF visits = <<>> THEN [stage_id |-> st, assigned_count |-> assigned_count]
    ELSE IF allocations[Head(visits).task_id] > 0 /\ st[Head(visits).task_id] = 0
         THEN FinalizeMappedPartial(Tail(visits), allocations,
                                    [st EXCEPT ![Head(visits).task_id] = Head(visits).stage],
                                    assigned_count + 1)
         ELSE FinalizeMappedPartial(Tail(visits), allocations, st, assigned_count)
\* a first loop that moves a task at every visit, whatever its stage
RECURSIVE FinalizeMappedAgain(_, _, _, _)
FinalizeMappedAgain(visits, allocations, st, assigned_count) ==
    IF visits = <<>> THEN [stage_id |-> st, assigned_count |-> assigned_count]
    ELSE IF allocations[Head(visits).task_id]
                >= get_remaining_quantity(tasks[Head(visits).task_id], st[Head(visits).task_id])
         THEN FinalizeMappedAgain(Tail(visits), allocations,
                                  [st EXCEPT ![Head(visits).task_id] = Head(visits).stage],
                                  assigned_count + 1)
         ELSE FinalizeMappedAgain(Tail(visits), allocations, st, assigned_count)
\* first loop: [stage_id, assigned_count] after the visits; a task is moved when
\* its allocation reaches its remaining quantity and it rests in no LAY column
RECURSIVE FinalizeMapped(_, _, _, _)
FinalizeMapped(visits, allocations, st, assigned_count) ==
    IF visits = <<>> THEN [stage_id |-> st, assigned_count |-> assigned_count]
    ELSE IF allocations[Head(visits).task_id]
                >= get_remaining_quantity(tasks[Head(visits).task_id], st[Head(visits).task_id])
            /\ st[Head(visits).task_id] = 0
         THEN FinalizeMapped(Tail(visits), allocations,
                             [st EXCEPT ![Head(visits).task_id] = Head(visits).stage],
                             assigned_count + 1)
         ELSE FinalizeMapped(Tail(visits), allocations, st, assigned_count)

\* fallback loop over run_allocations in task order
RECURSIVE FinalizeFallback(_, _, _, _, _, _, _)
FinalizeFallback(ids, allocations, processed, fresh_stages, lay_stage_index, st, assigned_count) ==
    IF ids = <<>> THEN [stage_id |-> st, assigned_count |-> assigned_count]
    ELSE IF Head(ids) \notin processed /\ allocations[Head(ids)] > 0
            /\ allocations[Head(ids)] >= get_remaining_quantity(tasks[Head(ids)], st[Head(ids)])
            /\ st[Head(ids)] = 0 /\ lay_stage_index < Len(fresh_stages)
         THEN FinalizeFallback(Tail(ids), allocations, processed, fresh_stages,
                               lay_stage_index + 1,
                               [st EXCEPT ![Head(ids)] = fresh_stages[lay_stage_index + 1]],
                               assigned_count + 1)
         ELSE FinalizeFallback(Tail(ids), allocations, processed, fresh_stages,
                               lay_stage_index, st, assigned_count)

FallbackAfter(mapped, visits, allocations, columns) ==
    FinalizeFallback([id \in DOMAIN allocations |-> id], allocations,
                     {visits[i].task_id : i \in DOMAIN visits},
                     get_lay_stages(columns, mapped.stage_id), 0,
                     mapped.stage_id, mapped.assigned_count)

FinalizeVisits(visits, allocations, columns, st) ==
    FallbackAfter(FinalizeMapped(visits, allocations, st, 0), visits, allocations, columns)

finalize_task_assignments_with_lay_mapping(allocations, assignments, columns, st) ==
    IF DOMAIN allocations = {} THEN [stage_id |-> st, assigned_count |-> 0]
    ELSE FinalizeVisits(FlattenAssignments(assignments), allocations, columns, st)

(***************************************************************************)
(* Inputs of a run                                                         *)
(***************************************************************************)
MaxJobs == 3
MaxQty == 2
MaxSlots == 3
DeepQty == 14
MixedQty == 7
DEFAULT_A3_SHEET_COST == 2
DEFAULT_SCREEN_COST == 50

Task(ptype, colour, size, quantity, has_deadline, days, in_lay) ==
    [product_type |-> ptype, color_variant |-> colour, size |-> size,
     quantity |-> quantity, has_deadline |-> has_deadline, days |-> days,
     in_lay |-> in_lay]

\* full colour tasks of several sizes, quantities and urgencies
SizeKinds ==
    {Task("full_colour", "none", s, q, d, 0, FALSE) :
        s \in {"a3", "a4", "295x100"}, q \in 1..MaxQty, d \in BOOLEAN}

\* one task of every other product type and colour
TypeKinds ==
    {Task(tc[1], tc[2], "a4", 1, FALSE, 0, FALSE) :
        tc \in {<<"zero", "none">>, <<"metal", "none">>, <<"single_colour", "white">>,
                <<"single_colour", "silver">>, <<"single_colour", "red">>}}

\* tasks that rest in a LAY column when the run starts
LaidKinds ==
    {Task("full_colour", "none", s, 1, FALSE, 0, TRUE) : s \in {"a3", "a4"}}

GeneralKinds == SizeKinds \cup TypeKinds \cup LaidKinds

SeqsUpTo(S, n) == UNION {[1..k -> S] : k \in 0..n}

\* the column stores: n empty columns, or an overloaded one before them
ColumnStores ==
    {Replicate(0, n) : n \in 0..MaxSlots}
        \cup {<<OVERLOAD_LIMIT>> \o Replicate(0, MaxSlots - 1)}

\* a store whose only column is overloaded
OverloadedStore == <<OVERLOAD_LIMIT>>

\* a store whose only column is one task short of the overload limit
NearlyFullStore == <<OVERLOAD_LIMIT - 1>>

DefaultCosts == <<DEFAULT_A3_SHEET_COST, DEFAULT_SCREEN_COST>>
CostSettings == {DefaultCosts, <<DEFAULT_A3_SHEET_COST, 0>>}

\* 20 A6 tasks of quantity 1 without deadline
A6Scenario == [i \in 1..20 |-> Task("full_colour", "none", "a6", 1, FALSE, 0, FALSE)]

\* one overdue task of a large quantity
DeepTasks ==
    {<<Task("full_colour", "none", s, q, TRUE, -1, FALSE)>> :
        s \in {"a3", "a4", "a6"}, q \in 1..DeepQty}

\* an A4 task next to a task of many small transfers, for the mixed templates
MixedTasks ==
    {<<Task("full_colour", "none", "95x95", q, FALSE, 0, FALSE),
       Task("full_colour", "none", "a4", 1, d, 0, FALSE)>> :
        q \in (MixedQty - 2)..MixedQty, d \in BOOLEAN}

\* one task of one more transfer than a sheet takes of its size
CapacityTasks ==
    {<<Task("full_colour", "none", s, get_fits_on_a3(s) + 1, FALSE, 0, FALSE)>> :
        s \in {"a5", "295x100", "95x95", "100x70", "60x60", "290x140"}}

Inputs ==
    (SeqsUpTo(GeneralKinds, MaxJobs) \X ColumnStores \X CostSettings)
        \cup ({A6Scenario} \X ColumnStores \X {DefaultCosts})
        \cup (DeepTasks \X (ColumnStores \cup {OverloadedStore}) \X CostSettings)
        \cup (MixedTasks \X (ColumnStores \cup {NearlyFullStore}) \X CostSettings)
        \cup (CapacityTasks \X ColumnStores \X {DefaultCosts})

NoResult == [type |-> "none", allocated |-> 0, tasks |-> 0, remaining |-> 0]

\* no function is called directly during a run
NoCall == [op |-> "none"]

Init ==
    /\ \E in \in Inputs :
        /\ tasks = in[1]
        /\ lay_columns = in[2]
        /\ gang_a3_sheet_cost = in[3][1]
        /\ gang_screen_cost = in[3][2]
        \* a task in a LAY column rests in the first column
        /\ (\E id \in DOMAIN in[1] : in[1][id].in_lay) => in[2] # <<>>
    /\ stage_id = [id \in DOMAIN tasks |-> IF tasks[id].in_lay THEN 1 ELSE 0]
    /\ pc = "start"
    /\ run_allocations = <<>>
    /\ lay_assignments = <<>>
    /\ lay_stages = <<>>
    /\ total_allocated_qty = 0
    /\ total_remaining_qty = 0
    /\ compatibility_groups = <<>>
    /\ unprocessed_groups = <<>>
    /\ remaining_tasks = <<>>
    /\ current_lay_stage = 0
    /\ sheets_in_current_lay = 0
    /\ allocated_qty = 0
    /\ compatible_pools = <<>>
    /\ result = NoResult
    /\ sheets = <<>>
    /\ call = NoCall

(***************************************************************************)
(* The run: analyze_and_gang_tasks and the passes it calls                 *)
(***************************************************************************)
inputs == <<tasks, gang_a3_sheet_cost, gang_screen_cost, lay_columns>>
pass_locals == <<current_lay_stage, sheets_in_current_lay, allocated_qty>>
run_dicts == <<run_allocations, lay_assignments, lay_stages>>

\* "if not tasks: return ... 'No tasks to analyze'"
StartEmpty ==
    /\ pc = "start"
    /\ tasks = <<>>
    /\ result' = [type |-> "warning", allocated |-> 0, tasks |-> 0, remaining |-> 0]
    /\ pc' = "done"
    /\ UNCHANGED <<call, inputs, stage_id, run_dicts, total_allocated_qty, total_remaining_qty,
                   compatibility_groups, unprocessed_groups, remaining_tasks, pass_locals,
                   compatible_pools, sheets>>

\* initialisation of the run up to the loop over the groups
Start ==
    /\ pc = "start"
    /\ tasks # <<>>
    /\ run_allocations' = [id \in TaskIds |-> 0]
    /\ lay_assignments' = <<>>
    /\ total_allocated_qty' = 0
    /\ total_remaining_qty' = SumSeq(Remaining)
    /\ compatibility_groups' = group_by_compatibility(tasks)
    /\ lay_stages' = get_lay_stages(lay_columns, stage_id)
    /\ unprocessed_groups' = <<>>
    /\ pc' = "groups"
    /\ UNCHANGED <<call, inputs, stage_id, remaining_tasks, pass_locals, compatible_pools,
                   result, sheets>>

\* entry of _process_compatibility_group for the next group
BeginGroup ==
    /\ pc = "groups"
    /\ compatibility_groups # <<>>
    /\ remaining_tasks' = SortByPriority(Head(compatibility_groups).tasks, Priority)
    /\ current_lay_stage' = 0
    /\ sheets_in_current_lay' = 0
    /\ allocated_qty' = 0
    /\ pc' = "group_loop"
    /\ UNCHANGED <<call, inputs, stage_id, run_dicts, total_allocated_qty, total_remaining_qty,
                   compatibility_groups, unprocessed_groups, compatible_pools, result, sheets>>

\* a pass that takes a new column for every sheet
AlwaysTakesNewStage == TRUE
\* a pass that keeps its column whatever the number of sheets in it
TakesNewStageOnce == current_lay_stage = 0
\* "if current_lay_stage is None or sheets_in_current_lay >= max_sheets_per_lay"
TakesNewStage == current_lay_stage = 0 \/ sheets_in_current_lay >= MAX_SHEETS_PER_LAY

\* a pass that takes its new column from the end of the queue
NextLayStageFromEnd ==
    IF TakesNewStage
    THEN (IF lay_stages # <<>> THEN lay_stages[Len(lay_stages)] ELSE 0)
    ELSE current_lay_stage
\* the column the next sheet goes to, 0 (None) when the queue is empty
NextLayStage ==
    IF TakesNewStage
    THEN (IF lay_stages # <<>> THEN Head(lay_stages) ELSE 0)
    ELSE current_lay_stage

\* the items of a combination whose task has priority >= 100
CriticalItems(combination, prio) ==
    SelectSeq(combination, LAMBDA item : prio[item.task] >= 100)

\* what one iteration of the group loop commits for the selected combination:
\* all of it when it should be ganged, else its critical items; <<>> is a break
GroupCommits(best_combination) ==
    IF best_combination = <<>> \/ NextLayStage = 0 THEN <<>>
    ELSE IF should_gang_combination(best_combination) THEN best_combination
    ELSE CriticalItems(best_combination, Priority)

\* a loop that goes on while tasks remain, whatever is left of the queue
GroupLoopRunsWhileTasks == remaining_tasks # <<>>
\* "while remaining_tasks and lay_stages"
GroupLoopRuns == remaining_tasks # <<>> /\ lay_stages # <<>>

\* a commit that moves the tasks of the sheet to the column at once
StageSetAtCommit(stage, combination) ==
    [id \in TaskIds |->
        IF \E k \in DOMAIN combination : combination[k].task = id THEN stage
        ELSE stage_id[id]]
\* "Mark for removal if fully consumed, but don't set stage yet": committing a
\* sheet leaves every task's stage as it is
StageAfterCommit(stage, combination) == stage_id

\* the bookkeeping of one committed sheet, shared by both passes
Commit(stage, combination, pass, best_combination) ==
    /\ run_allocations' = AddAllocations(run_allocations, combination)
    /\ stage_id' = StageAfterCommit(stage, combination)
    /\ lay_assignments' =
            AppendAssignments(InitAssignments(lay_assignments, stage), stage, combination)
    /\ lay_stages' = IF TakesNewStage THEN Tail(lay_stages) ELSE lay_stages
    /\ current_lay_stage' = stage
    /\ sheets_in_current_lay' = (IF TakesNewStage THEN 0 ELSE sheets_in_current_lay) + 1
    /\ allocated_qty' = allocated_qty + CombinationQty(combination)
    /\ sheets' = Append(sheets, [stage |-> stage, combination |-> combination,
                                 pass |-> pass, selected |-> best_combination])

GroupCommit(combination, best_combination) ==
    /\ combination # <<>>
    /\ Commit(NextLayStage, combination, "group", best_combination)
    /\ remaining_tasks' =
            RemoveTasks(remaining_tasks,
                        FullyConsumed(combination, run_allocations', Remaining))

GroupStep(best_combination) == GroupCommit(GroupCommits(best_combination), best_combination)

\* one iteration of the loop of _process_compatibility_group that commits a sheet
GroupIteration ==
    /\ pc = "group_loop"
    /\ GroupLoopRuns
    /\ GroupStep(find_best_a3_combination(remaining_tasks, run_allocations))
    /\ UNCHANGED <<call, inputs, pc, total_allocated_qty, total_remaining_qty,
                   compatibility_groups, unprocessed_groups, compatible_pools, result>>

GroupLoopEnds ==
    IF GroupLoopRuns
    THEN GroupCommits(find_best_a3_combination(remaining_tasks, run_allocations)) = <<>>
    ELSE TRUE

SetGroup(groups, key, ids) ==
    IF \E i \in DOMAIN groups : groups[i].key = key
    THEN [i \in DOMAIN groups |->
            IF groups[i].key = key THEN [key |-> key, tasks |-> ids] ELSE groups[i]]
    ELSE Append(groups, [key |-> key, tasks |-> ids])

\* the loop ends (condition false or break) and the group's result is merged
GroupReturn ==
    /\ pc = "group_loop"
    /\ GroupLoopEnds
    /\ total_allocated_qty' = total_allocated_qty + allocated_qty
    /\ unprocessed_groups' =
            IF remaining_tasks # <<>>
            THEN SetGroup(unprocessed_groups, Head(compatibility_groups).key, remaining_tasks)
            ELSE unprocessed_groups
    /\ compatibility_groups' = Tail(compatibility_groups)
    /\ pc' = "groups"
    /\ UNCHANGED <<call, inputs, stage_id, run_dicts, total_remaining_qty, remaining_tasks,
                   pass_locals, compatible_pools, result, sheets>>

\* "if unprocessed_groups and lay_stages"
EntersCross == unprocessed_groups # <<>> /\ lay_stages # <<>>

\* entry of _process_cross_compatibility
CrossEnter ==
    /\ pc = "groups"
    /\ compatibility_groups = <<>>
    /\ EntersCross
    /\ compatible_pools' = create_cross_compatibility_pools(unprocessed_groups)
    /\ current_lay_stage' = 0
    /\ sheets_in_current_lay' = 0
    /\ allocated_qty' = 0
    /\ pc' = "cross_loop"
    /\ UNCHANGED <<call, inputs, stage_id, run_dicts, total_allocated_qty, total_remaining_qty,
                   compatibility_groups, unprocessed_groups, remaining_tasks, result, sheets>>

CrossSkip ==
    /\ pc = "groups"
    /\ compatibility_groups = <<>>
    /\ ~EntersCross
    /\ pc' = "finalize"
    /\ UNCHANGED <<call, inputs, stage_id, run_dicts, total_allocated_qty, total_remaining_qty,
                   compatibility_groups, unprocessed_groups, remaining_tasks, pass_locals,
                   compatible_pools, result, sheets>>

\* "while pool_tasks and lay_stages"
CrossLoopRuns ==
    IF compatible_pools = <<>> THEN FALSE
    ELSE Head(compatible_pools) # <<>> /\ lay_stages # <<>>

\* what one iteration of the cross loop commits; <<>> is a break
CrossCommits(best_combination) ==
    IF best_combination = <<>> \/ NextLayStage = 0 THEN <<>>
    ELSE IF should_gang_combination(best_combination) THEN best_combination
    ELSE <<>>

RemoveFromGroups(groups, gone) ==
    [i \in DOMAIN groups |->
        [key |-> groups[i].key, tasks |-> RemoveTasks(groups[i].tasks, gone)]]

CrossCommit(combination, best_combination) ==
    /\ combination # <<>>
    /\ Commit(NextLayStage, combination, "cross", best_combination)
    /\ unprocessed_groups' =
            RemoveFromGroups(unprocessed_groups,
                             FullyConsumed(combination, run_allocations', Remaining))

CrossStep(best_combination) == CrossCommit(CrossCommits(best_combination), best_combination)

\* one iteration of the loop of _process_cross_compatibility that commits a sheet
CrossIteration ==
    /\ pc = "cross_loop"
    /\ CrossLoopRuns
    /\ CrossStep(find_best_cross_compatible_combination(Head(compatible_pools),
                                                        run_allocations))
    /\ UNCHANGED <<call, inputs, pc, total_allocated_qty, total_remaining_qty,
                   compatibility_groups, remaining_tasks, compatible_pools, result>>

CrossLoopEnds ==
    IF CrossLoopRuns
    THEN CrossCommits(find_best_cross_compatible_combination(Head(compatible_pools),
                                                             run_allocations)) = <<>>
    ELSE TRUE

\* the loop over a pool ends and the next pool is taken
CrossNextPool ==
    /\ pc = "cross_loop"
    /\ compatible_pools # <<>>
    /\ CrossLoopEnds
    /\ compatible_pools' = Tail(compatible_pools)
    /\ UNCHANGED <<call, inputs, stage_id, pc, run_dicts, total_allocated_qty,
                   total_remaining_qty, compatibility_groups, unprocessed_groups,
                   remaining_tasks, pass_locals, result, sheets>>

\* the cross pass returns and its allocated quantity is merged
CrossReturn ==
    /\ pc = "cross_loop"
    /\ compatible_pools = <<>>
    /\ total_allocated_qty' = total_allocated_qty + allocated_qty
    /\ pc' = "finalize"
    /\ UNCHANGED <<call, inputs, stage_id, run_dicts, total_remaining_qty, compatibility_groups,
                   unprocessed_groups, remaining_tasks, pass_locals, compatible_pools,
                   result, sheets>>

Finalized ==
    finalize_task_assignments_with_lay_mapping(run_allocations, lay_assignments,
                                               lay_columns, stage_id)

Notify(finalized) ==
    /\ stage_id' = finalized.stage_id
    /\ result' = [type |-> "success", allocated |-> total_allocated_qty,
                  tasks |-> finalized.assigned_count,
                  remaining |-> total_remaining_qty - total_allocated_qty]

\* the finalizer moves the fully consumed tasks and the run reports
Finalize ==
    /\ pc = "finalize"
    /\ Notify(Finalized)
    /\ pc' = "done"
    /\ UNCHANGED <<call, inputs, run_dicts, total_allocated_qty, total_remaining_qty,
                   compatibility_groups, unprocessed_groups, remaining_tasks, pass_locals,
                   compatible_pools, sheets>>

(***************************************************************************)
(* Direct calls of the engine's functions, outside a run                   *)
(***************************************************************************)
MaxCount == 9
MaxPairCount == 3
MaxCallJobs == 3
MaxDays == 9
MaxFinalizeJobs == 2

CatalogSizes == {"a3", "a4", "a5", "a6", "295x100", "95x95", "100x70", "60x60", "290x140"}

\* layouts of one size (of the catalog or unknown), of two sizes, and the templates
LayoutInputs ==
    {<< <<s, n>> >> : s \in CatalogSizes \cup {"unknown"}, n \in 1..MaxCount}
        \cup {<< <<p[1], n1>>, <<p[2], n2>> >> :
                p \in {q \in CatalogSizes \X CatalogSizes : q[1] # q[2]},
                n1 \in 1..MaxPairCount, n2 \in 1..MaxPairCount}
        \cup {Templates[i].layout : i \in DOMAIN Templates}

CallCosts == CostSettings \cup {<<DEFAULT_A3_SHEET_COST, 1>>}

\* the jobs of a combination handed to the decision
DecisionJobs ==
    {Task("full_colour", "none", "a4", q, d[1], d[2], FALSE) :
        q \in 1..2, d \in {<<FALSE, 0>>, <<TRUE, 0>>, <<TRUE, 2>>}}

\* the jobs whose priority is asked
PriorityJobs ==
    {Task("full_colour", "none", s, q, d, days, FALSE) :
        s \in {"a3", "a4"}, q \in 1..2, d \in BOOLEAN, days \in (-1)..MaxDays}

\* the jobs, column stores, allocation records and maps handed to the finalizer
FinalizeJobs ==
    {Task("full_colour", "none", "a4", q, FALSE, 0, FALSE) : q \in 1..MaxQty}
FinalizeStores == {<<0>>, <<0, 0>>, <<OVERLOAD_LIMIT - 1, 0>>}
FinalizeItems == {[task_id |-> t, quantity |-> 1] : t \in 1..MaxFinalizeJobs}
FinalizeMaps ==
    {<<>>}
        \cup {<<[stage |-> c, items |-> <<i>>]>> : c \in 1..2, i \in FinalizeItems}
        \cup {<<[stage |-> 1, items |-> <<i>>], [stage |-> 2, items |-> <<j>>]>> :
                i \in FinalizeItems, j \in FinalizeItems}
FinalizeInputs ==
    {[op |-> "finalize", jobs |-> js, columns |-> cs, allocations |-> al,
      assignments |-> m, done |-> FALSE, out |-> 0] :
        js \in [1..MaxFinalizeJobs -> FinalizeJobs], cs \in FinalizeStores,
        al \in [1..MaxFinalizeJobs -> 0..MaxQty], m \in FinalizeMaps}

CallInputs ==
    {[op |-> "utilization", layout |-> l, done |-> FALSE, out |-> 0] : l \in LayoutInputs}
        \cup {[op |-> "decision", jobs |-> js, costs |-> c, done |-> FALSE, out |-> FALSE] :
                js \in SeqsUpTo(DecisionJobs, MaxCallJobs) \ {<<>>}, c \in CallCosts}
        \cup {[op |-> "priority", job |-> j, costs |-> c, done |-> FALSE, out |-> 0] :
                j \in PriorityJobs, c \in CallCosts}
        \cup FinalizeInputs

InitCall ==
    /\ call \in CallInputs
    /\ tasks = (IF call.op = "finalize" THEN call.jobs ELSE <<>>)
    /\ lay_columns = (IF call.op = "finalize" THEN call.columns ELSE <<>>)
    /\ gang_a3_sheet_cost = DEFAULT_A3_SHEET_COST
    /\ gang_screen_cost = DEFAULT_SCREEN_COST
    /\ stage_id = [id \in TaskIds |-> 0]
    /\ pc = "call"
    /\ run_allocations = <<>>
    /\ lay_assignments = <<>>
    /\ lay_stages = <<>>
    /\ total_allocated_qty = 0
    /\ total_remaining_qty = 0
    /\ compatibility_groups = <<>>
    /\ unprocessed_groups = <<>>
    /\ remaining_tasks = <<>>
    /\ current_lay_stage = 0
    /\ sheets_in_current_lay = 0
    /\ allocated_qty = 0
    /\ compatible_pools = <<>>
    /\ result = NoResult
    /\ sheets = <<>>

run_vars == <<inputs, stage_id, pc, run_dicts, total_allocated_qty, total_remaining_qty,
              compatibility_groups, unprocessed_groups, remaining_tasks, pass_locals,
              compatible_pools, result, sheets>>

Returns(out) == call' = [call EXCEPT !.out = out, !.done = TRUE]

\* _calculate_template_utilization(layout)
CallUtilization ==
    /\ pc = "call"
    /\ call.op = "utilization"
    /\ ~call.done
    /\ Returns(calculate_template_utilization(call.layout))
    /\ UNCHANGED run_vars

\* the combination of one unit of each job, and the jobs' priorities and
\* cost-effectiveness under the costs
UnitCombination(jobs) == [k \in DOMAIN jobs |-> [task |-> k, quantity |-> 1]]
PriorityOf(jobs, costs) ==
    [k \in DOMAIN jobs |-> get_gang_priority(jobs[k], costs[1], costs[2])]
CostEffectiveOf(jobs, costs) ==
    [k \in DOMAIN jobs |-> is_cost_effective_to_gang(jobs[k], costs[1], costs[2])]

\* _should_gang_combination(combination)
CallDecision ==
    /\ pc = "call"
    /\ call.op = "decision"
    /\ ~call.done
    /\ Returns(ShouldGang(UnitCombination(call.jobs), PriorityOf(call.jobs, call.costs),
                          CostEffectiveOf(call.jobs, call.costs)))
    /\ UNCHANGED run_vars

\* task.get_gang_priority()
CallPriority ==
    /\ pc = "call"
    /\ call.op = "priority"
    /\ ~call.done
    /\ Returns(get_gang_priority(call.job, call.costs[1], call.costs[2]))
    /\ UNCHANGED run_vars

\* the finalizer's effect: the stages of the tasks and the count it returns
FinalizeReturns(finalized) ==
    /\ stage_id' = finalized.stage_id
    /\ Returns(finalized.assigned_count)

\* _finalize_task_assignments_with_lay_mapping(run_allocations, lay_assignments)
CallFinalize ==
    /\ pc = "call"
    /\ call.op = "finalize"
    /\ ~call.done
    /\ FinalizeReturns(finalize_task_assignments_with_lay_mapping(
                            call.allocations, call.assignments, lay_columns, stage_id))
    /\ UNCHANGED <<inputs, pc, run_dicts, total_allocated_qty, total_remaining_qty,
                   compatibility_groups, unprocessed_groups, remaining_tasks, pass_locals,
                   compatible_pools, result, sheets>>

NextCall ==
    \/ CallUtilization
    \/ CallDecision
    \/ CallPriority
    \/ CallFinalize

CallSpec == InitCall /\ [][NextCall]_vars

(***************************************************************************)
(* The run as a whole                                                      *)
(***************************************************************************)
Next ==
    \/ StartEmpty
    \/ Start
    \/ BeginGroup
    \/ GroupIteration
    \/ GroupReturn
    \/ CrossEnter
    \/ CrossSkip
    \/ CrossIteration
    \/ CrossNextPool
    \/ CrossReturn
    \/ Finalize

Spec == Init /\ [][Next]_vars

(***************************************************************************)
(* Properties of a run                                                     *)
(***************************************************************************)
\* the state of the tasks when the run starts
StageAtStart == [id \in TaskIds |-> IF tasks[id].in_lay THEN 1 ELSE 0]
RemainingAtStart ==
    [id \in TaskIds |-> get_remaining_quantity(tasks[id], StageAtStart[id])]

\* the number of LAY columns available when the run starts
AvailableSlots == Len(get_lay_stages(lay_columns, StageAtStart))

\* the sheets of the history that hold a task
SheetsOf(id) ==
    {i \in DOMAIN sheets :
        \E k \in DOMAIN sheets[i].combination : sheets[i].combination[k].task = id}

\* C1: in every state of a run, after any commits of the group pass and of the
\* cross pass, the quantity allocated to a job in this run is at most the job's
\* remaining quantity at run start.
C1_AllocationWithinRemaining ==
    \A id \in DOMAIN run_allocations : run_allocations[id] <= RemainingAtStart[id]

\* a job of quantity 2 or more, allocated in full over two sheets
C1_Witness ==
    \E id \in DOMAIN run_allocations :
        /\ RemainingAtStart[id] >= 2
        /\ run_allocations[id] = RemainingAtStart[id]
        /\ Cardinality(SheetsOf(id)) >= 2

\* the quantity lay_assignments records for a job over all columns
RECURSIVE MapQty(_, _)
MapQty(assignments, id) ==
    IF assignments = <<>> THEN 0
    ELSE SumSeq([k \in DOMAIN Head(assignments).items |->
                    IF Head(assignments).items[k].task_id = id
                    THEN Head(assignments).items[k].quantity ELSE 0])
         + MapQty(Tail(assignments), id)

\* C2: in every state of a run, for every job the quantities recorded for it over
\* all columns of lay_assignments sum to its value in run_allocations.
C2_MapSumsToAllocation ==
    \A id \in DOMAIN run_allocations : MapQty(lay_assignments, id) = run_allocations[id]

\* a job recorded in two columns after the first column took 12 sheets of it
C2_Witness ==
    \E id \in DOMAIN run_allocations :
        /\ run_allocations[id] > MAX_SHEETS_PER_LAY
        /\ Cardinality({i \in DOMAIN lay_assignments :
                \E k \in DOMAIN lay_assignments[i].items :
                    lay_assignments[i].items[k].task_id = id}) >= 2

\* lay_assignments records a quantity for the job in the column
RecordedIn(stage, id) ==
    \E i \in DOMAIN lay_assignments :
        /\ lay_assignments[i].stage = stage
        /\ \E k \in DOMAIN lay_assignments[i].items :
            /\ lay_assignments[i].items[k].task_id = id
            /\ lay_assignments[i].items[k].quantity > 0

Finalized_Run == pc = "done" /\ result.type = "success"

\* C3: after finalization a job that was in no LAY column at run start has been
\* moved to a LAY column iff its allocation reached its remaining quantity, the
\* column it was moved to records a quantity for it in lay_assignments, and a job
\* allocated only in part keeps its stage.
C3_MovedIffFullyAllocated ==
    Finalized_Run =>
        \A id \in TaskIds : ~tasks[id].in_lay =>
            /\ (stage_id[id] # 0) <=> (run_allocations[id] >= RemainingAtStart[id])
            /\ stage_id[id] # 0 => RecordedIn(stage_id[id], id)
            /\ run_allocations[id] < RemainingAtStart[id] => stage_id[id] = StageAtStart[id]

\* a finished run that moved one job and left another allocated in part
C3_Witness ==
    /\ Finalized_Run
    /\ \E id \in TaskIds : ~tasks[id].in_lay /\ stage_id[id] # 0
    /\ \E id \in TaskIds :
        /\ ~tasks[id].in_lay
        /\ run_allocations[id] > 0
        /\ run_allocations[id] < RemainingAtStart[id]
        /\ stage_id[id] = 0

\* C4: no step of the group pass or of the cross pass changes a job's stage: until
\* the finalizer has run every job is in the stage it had at run start.
C4_StagesUntouchedBeforeFinalize ==
    pc # "done" => stage_id = StageAtStart

\* the cross pass has committed a sheet, a job is allocated in full, the finalizer is next
C4_Witness ==
    /\ pc = "finalize"
    /\ \E i \in DOMAIN sheets : sheets[i].pass = "cross"
    /\ \E id \in TaskIds : ~tasks[id].in_lay /\ run_allocations[id] >= RemainingAtStart[id]

\* the step commits the whole of the selected combination to the column in turn
CommittedWhole(best_combination) ==
    /\ run_allocations' = AddAllocations(run_allocations, best_combination)
    /\ lay_assignments' =
            AppendAssignments(InitAssignments(lay_assignments, NextLayStage),
                              NextLayStage, best_combination)

UrgentIsCommitted(best_combination) ==
    (best_combination # <<>> /\ HasCritical(best_combination, Priority))
        => CommittedWhole(best_combination)

UrgentStep ==
    /\ (pc = "group_loop" /\ GroupLoopRuns)
            => UrgentIsCommitted(find_best_a3_combination(remaining_tasks, run_allocations))
    /\ (pc = "cross_loop" /\ CrossLoopRuns)
            => UrgentIsCommitted(find_best_cross_compatible_combination(
                                    Head(compatible_pools), run_allocations))

\* C5: whenever the selector returns a combination holding a job of priority >= 100
\* while a LAY column is available, the step of the pass commits that combination:
\* its quantities are added to run_allocations and to lay_assignments, however
\* many of its jobs are cost-effective.
C5_UrgentCombinationCommitted == [][UrgentStep]_vars

\* a committed sheet of an urgent and a non-urgent job, none of them cost-effective
C5_Witness ==
    \E i \in DOMAIN sheets :
        /\ sheets[i].combination = sheets[i].selected
        /\ HasCritical(sheets[i].combination, Priority)
        /\ \E k \in DOMAIN sheets[i].combination :
                Priority[sheets[i].combination[k].task] < 100
        /\ CostEffectiveCount(sheets[i].combination, CostEffective) = 0

\* C6: no committed combination, of the group pass or of the cross pass, holds both
\* a Zero job and a job of another product type.
C6_ZeroNeverMixed ==
    \A i \in DOMAIN sheets : \A j, k \in DOMAIN sheets[i].combination :
        tasks[sheets[i].combination[j].task].product_type = "zero"
            => tasks[sheets[i].combination[k].task].product_type = "zero"

\* a sheet of two Zero jobs in a run that also holds a job of another type
C6_Witness ==
    /\ \E i \in DOMAIN sheets :
        /\ Len(sheets[i].combination) >= 2
        /\ \A k \in DOMAIN sheets[i].combination :
                tasks[sheets[i].combination[k].task].product_type = "zero"
    /\ \E id \in TaskIds :
        ~tasks[id].in_lay /\ tasks[id].product_type # "zero" /\ tasks[id].size = "a4"

\* C7: every committed combination that holds an A3 job is that one job with
\* quantity 1; an A3 job shares its sheet with no other job.
C7_A3Alone ==
    \A i \in DOMAIN sheets :
        (\E k \in DOMAIN sheets[i].combination :
            tasks[sheets[i].combination[k].task].size = "a3")
        => Len(sheets[i].combination) = 1 /\ sheets[i].combination[1].quantity = 1

\* an A3 job of quantity 2 on a sheet while its group holds a job of another size
C7_Witness ==
    \E i \in DOMAIN sheets :
        /\ tasks[sheets[i].combination[1].task].size = "a3"
        /\ tasks[sheets[i].combination[1].task].quantity >= 2
        /\ \E id \in TaskIds :
            /\ ~tasks[id].in_lay
            /\ tasks[id].size # "a3"
            /\ GroupKey(tasks[id]) = GroupKey(tasks[sheets[i].combination[1].task])

\* a finished run over the 20 A6 jobs under the default costs
A6Run ==
    /\ tasks = A6Scenario
    /\ <<gang_a3_sheet_cost, gang_screen_cost>> = DefaultCosts
    /\ Finalized_Run

\* C8 as stated: over 20 A6 jobs of quantity 1 without deadline and default costs,
\* with n available columns the unallocated quantity is 0 when n >= 3 and
\* 20 - 8n when n < 3.
C8_UnallocatedAsStated ==
    A6Run => result.remaining = (IF AvailableSlots >= 3 THEN 0 ELSE 20 - 8 * AvailableSlots)

\* C8 amended: over 20 A6 jobs of quantity 1 without deadline and default costs,
\* with n available columns the unallocated quantity is 0 when n >= 2 and
\* 20 - 8n when n < 2.
C8_UnallocatedByColumns ==
    A6Run => result.remaining = (IF AvailableSlots >= 2 THEN 0 ELSE 20 - 8 * AvailableSlots)

\* the 20 A6 jobs allocated in full with two available columns
C8_Witness ==
    A6Run /\ AvailableSlots = 2 /\ result.remaining = 0 /\ Len(sheets) = 3

\* one job past its deadline, of a quantity above one sheet's capacity for its
\* size, not cost-effective
SingleOverdueJob ==
    /\ Len(tasks) = 1
    /\ ~tasks[1].in_lay
    /\ tasks[1].has_deadline /\ tasks[1].days < 0
    /\ tasks[1].quantity > get_fits_on_a3(tasks[1].size)
    /\ ~is_cost_effective_to_gang(tasks[1], gang_a3_sheet_cost, gang_screen_cost)

\* C9: a single job past its deadline, of a quantity above one sheet's capacity and
\* not cost-effective, has priority exactly 100 and, in a run with at least one
\* available column, ends the run in the first column of the queue.
C9_OverdueJobInFirstColumn ==
    SingleOverdueJob =>
        /\ get_gang_priority(tasks[1], gang_a3_sheet_cost, gang_screen_cost) = 100
        /\ (Finalized_Run /\ AvailableSlots >= 1)
                => stage_id[1] = Head(get_lay_stages(lay_columns, StageAtStart))

\* the sheets among the first n of the history that went to a column
SheetsIn(stage, n) == Cardinality({j \in 1..n : sheets[j].stage = stage})

\* C10: once a first column is taken, a further column is taken only when the
\* column being filled has accepted 12 sheets; otherwise the next sheet goes to the
\* same column, also across compatibility groups and into the cross pass.
C10_NewColumnOnlyAtCap ==
    \A i \in 2..Len(sheets) :
        sheets[i].stage # sheets[i - 1].stage
            => SheetsIn(sheets[i - 1].stage, i - 1) >= MAX_SHEETS_PER_LAY

\* the queue of LAY columns the run is given
QueueAtStart == get_lay_stages(lay_columns, StageAtStart)

\* the position of a column in a queue, 0 when it is not in it
PositionIn(queue, stage) ==
    IF \E j \in DOMAIN queue : queue[j] = stage
    THEN CHOOSE j \in DOMAIN queue : queue[j] = stage
    ELSE 0

\* the columns that received sheets are the first k of the queue, taken in order,
\* and the rest of the queue is what is left
TakenPrefix(queue, k) ==
    /\ lay_stages = SubSeq(queue, k + 1, Len(queue))
    /\ \A i \in DOMAIN sheets : PositionIn(queue, sheets[i].stage) \in 1..k
    /\ \A j \in 1..k : \E i \in DOMAIN sheets : sheets[i].stage = queue[j]
    /\ \A i, j \in DOMAIN sheets :
            i < j => PositionIn(queue, sheets[i].stage) <= PositionIn(queue, sheets[j].stage)

\* C11: the columns that receive sheets during a run are a prefix of the queue the
\* run is given, in its order: no column is skipped, taken out of order or taken
\* twice.
C11_ColumnsTakenInQueueOrder ==
    (pc # "start" /\ tasks # <<>>)
        => \E k \in 0..Len(QueueAtStart) : TakenPrefix(QueueAtStart, k)

\* sheets went to the second and then the third column while the first is overloaded
C11_Witness ==
    /\ lay_columns # <<>>
    /\ lay_columns[1] >= OVERLOAD_LIMIT
    /\ \E i, j \in DOMAIN sheets : i < j /\ sheets[i].stage = 2 /\ sheets[j].stage = 3

\* a finished call of the utilization calculator
UtilizationCalled == call.op = "utilization" /\ call.done

ItemArea(size) == get_size_dims_mm(size)[1] * get_size_dims_mm(size)[2]
TotalArea(layout) == SumSeq([i \in DOMAIN layout |-> layout[i][2] * ItemArea(layout[i][1])])

UnknownSizeIn(layout) ==
    \E i \in DOMAIN layout : get_size_dims_mm(layout[i][1]) = <<0, 0>>
OversizeIn(layout) ==
    \E i \in DOMAIN layout :
        get_size_dims_mm(layout[i][1])[1] > SheetW \/ get_size_dims_mm(layout[i][1])[2] > SheetH

\* the rows and columns of one size that fit the sheet unrotated
GridCapacity(size) ==
    (SheetW \div get_size_dims_mm(size)[1]) * (SheetH \div get_size_dims_mm(size)[2])

\* C12: for every layout over the catalog sizes the utilization calculator returns
\* either 0 or the area of all items of the layout over the sheet area, never more
\* than 1 and never the value of a part of the items; it returns 0 when a size is
\* unknown or an item is wider or taller than the sheet, and for a layout of one
\* size it is positive exactly when the count fits the rows and columns of the sheet.
C12_UtilizationAllOrNothing ==
    UtilizationCalled =>
        /\ call.out \in {0, TotalArea(call.layout)}
        /\ call.out <= SHEET_AREA_MM2
        /\ (UnknownSizeIn(call.layout) \/ OversizeIn(call.layout)) => call.out = 0
        /\ (Len(call.layout) = 1 /\ ~UnknownSizeIn(call.layout))
                => (call.out > 0 <=> call.layout[1][2] <= GridCapacity(call.layout[1][1]))

\* a layout of two known sizes whose area fits the sheet and whose packing fails
C12_Witness ==
    /\ UtilizationCalled
    /\ Len(call.layout) = 2
    /\ ~UnknownSizeIn(call.layout)
    /\ TotalArea(call.layout) <= SHEET_AREA_MM2
    /\ call.out = 0

\* a finished call of the decision on a combination without a job of priority >= 100
NonUrgentDecision ==
    /\ call.op = "decision"
    /\ call.done
    /\ \A k \in DOMAIN call.jobs :
            get_gang_priority(call.jobs[k], call.costs[1], call.costs[2]) < 100

\* the jobs of the call that are cost-effective on their own
CostEffectiveJobs ==
    {k \in DOMAIN call.jobs :
        is_cost_effective_to_gang(call.jobs[k], call.costs[1], call.costs[2])}

C14_CriticalIffDueWithinOneDay ==
    (call.op = "priority" /\ call.done)
        => (call.out >= 100 <=> (call.job.has_deadline /\ call.job.days <= 1))

\* a cost-effective job due in 2 days: 50 + 10
C14_Witness ==
    /\ call.op = "priority"
    /\ call.done
    /\ call.job.has_deadline
    /\ call.job.days = 2
    /\ call.out = 60

\* C15: at the end of a run the summary agrees with the run's state: the reported
\* allocated quantity is the sum of run_allocations, the reported unallocated
\* quantity is the sum of the remaining quantities at run start minus that total
\* and is not negative, and the reported job count is the number of jobs whose
\* stage the finalizer set.
C15_SummaryConsistent ==
    Finalized_Run =>
        /\ result.allocated = SumSeq(run_allocations)
        /\ result.remaining = SumSeq(RemainingAtStart) - SumSeq(run_allocations)
        /\ result.remaining >= 0
        /\ result.tasks = Cardinality({id \in TaskIds : stage_id[id] # StageAtStart[id]})

\* a finished run that allocated an item of quantity 2, moved a job and left a rest
C15_Witness ==
    /\ Finalized_Run
    /\ \E i \in DOMAIN sheets : \E k \in DOMAIN sheets[i].combination :
            sheets[i].combination[k].quantity >= 2
    /\ result.tasks >= 1
    /\ result.remaining >= 1

\* every LAY column holds 20 tasks or more when the run starts
QueueEmptyAtStart ==
    \A c \in DOMAIN lay_columns :
        lay_columns[c] + Cardinality({id \in TaskIds : StageAtStart[id] = c})
            >= OVERLOAD_LIMIT

\* the quantity of the jobs that rest in no LAY column when the run starts
QuantityOutsideLay ==
    SumSeq([id \in TaskIds |-> IF tasks[id].in_lay THEN 0 ELSE tasks[id].quantity])

NothingAllocated ==
    /\ \A id \in DOMAIN run_allocations : run_allocations[id] = 0
    /\ lay_assignments = <<>>
    /\ sheets = <<>>
    /\ stage_id = StageAtStart

\* C16: a run with an empty queue of columns ends as a success with every
\* allocation 0, an empty lay_assignments, no stage changed and the whole remaining
\* quantity reported as unallocated; a run with an empty job list returns a
\* warning and touches no state.
C16_EmptyQueueOrJobList ==
    /\ (tasks # <<>> /\ QueueEmptyAtStart) =>
            /\ NothingAllocated
            /\ pc = "done" =>
                    result = [type |-> "success", allocated |-> 0, tasks |-> 0,
                              remaining |-> QuantityOutsideLay]
    /\ tasks = <<>> =>
            /\ NothingAllocated /\ run_allocations = <<>> /\ lay_stages = <<>>
            /\ pc = "done" => result.type = "warning"

\* a finished run over a job whose only column is overloaded
C16_Witness ==
    /\ pc = "done"
    /\ tasks # <<>>
    /\ lay_columns # <<>>
    /\ QueueEmptyAtStart
    /\ result.remaining = QuantityOutsideLay

\* C17: a job that rests in a LAY column at run start is in no committed
\* combination, its allocation stays 0 for the whole run and the finalizer leaves
\* its stage as it is.
C17_LaidJobsUntouched ==
    \A id \in TaskIds : tasks[id].in_lay =>
        /\ SheetsOf(id) = {}
        /\ id \in DOMAIN run_allocations => run_allocations[id] = 0
        /\ \A i \in DOMAIN lay_assignments : \A k \in DOMAIN lay_assignments[i].items :
                lay_assignments[i].items[k].task_id # id
        /\ stage_id[id] = StageAtStart[id]

\* a finished run that moved a job while a job of the same size and group rests in a LAY column
C17_Witness ==
    /\ Finalized_Run
    /\ \E id, other \in TaskIds :
        /\ tasks[id].in_lay
        /\ ~tasks[other].in_lay
        /\ tasks[other].size = tasks[id].size
        /\ tasks[other].size # "a3"
        /\ GroupKey(tasks[other]) = GroupKey(tasks[id])
        /\ stage_id[other] # 0


\* an iteration of the loop of a group or of the loop of a pool leaves the loop
\* or adds to the allocated total, which stays within the total remaining
LoopProgress ==
    /\ (pc = "group_loop" \/ pc = "cross_loop") =>
            \/ pc' # pc
            \/ compatible_pools' # compatible_pools
            \/ SumSeq(run_allocations') > SumSeq(run_allocations)
    /\ SumSeq(run_allocations') <= SumSeq(RemainingAtStart)

\* what is left of the run: the control position, the groups and pools still to
\* process and the quantity not yet allocated
PhaseRank ==
    CASE pc = "start" -> 8 + 2 * Len(tasks)
      [] pc = "groups" -> 7 + 2 * Len(compatibility_groups)
      [] pc = "group_loop" -> 6 + 2 * Len(compatibility_groups)
      [] pc = "cross_loop" -> 2 + Len(compatible_pools)
      [] pc = "finalize" -> 1
      [] OTHER -> 0
RunMeasure == PhaseRank + SumSeq(RemainingAtStart) - SumSeq(run_allocations)

\* the guards of the steps of a run: some step can be taken
StepEnabled ==
    CASE pc = "start" -> tasks = <<>> \/ tasks # <<>>
      [] pc = "groups" ->
            \/ compatibility_groups # <<>>
            \/ compatibility_groups = <<>> /\ (EntersCross \/ ~EntersCross)
      [] pc = "group_loop" ->
            \/ GroupLoopEnds
            \/ /\ GroupLoopRuns
               /\ GroupCommits(find_best_a3_combination(remaining_tasks,
                                                        run_allocations)) # <<>>
      [] pc = "cross_loop" ->
            \/ compatible_pools = <<>>
            \/ compatible_pools # <<>> /\ CrossLoopEnds
            \/ /\ CrossLoopRuns
               /\ CrossCommits(find_best_cross_compatible_combination(
                                    Head(compatible_pools), run_allocations)) # <<>>
      [] pc = "finalize" -> TRUE
      [] OTHER -> FALSE

\* C18: every run ends and reaches the finalizer: each iteration of the group
\* loop and of the loop over a cross pool leaves the loop or strictly increases
\* the total allocated quantity, which is at most the total remaining quantity;
\* every step lowers a measure that is a natural number, and a step can be
\* taken in every state but the one the run ends in.
C18_RunTerminates ==
    /\ [](pc # "done" => StepEnabled)
    /\ [](RunMeasure >= 0)
    /\ [][LoopProgress /\ RunMeasure' < RunMeasure]_vars

\* a finished run of three iterations that committed, one of which left a rest
C18_Witness ==
    /\ Finalized_Run
    /\ Len(sheets) >= 3
    /\ SumSeq(run_allocations) < SumSeq(RemainingAtStart)

\* the selected combination holds a job of priority >= 100 and a job below it,
\* and fewer than half of its jobs are cost-effective
UrgentMixedFailingMajority(best_combination) ==
    /\ best_combination # <<>>
    /\ HasCritical(best_combination, Priority)
    /\ \E k \in DOMAIN best_combination : Priority[best_combination[k].task] < 100
    /\ 2 * CostEffectiveCount(best_combination, CostEffective) < Len(best_combination)

\* the step commits the pairs of the urgent jobs and leaves the other jobs of
\* the combination as they are
OnlyUrgentCommitted(best_combination) ==
    \A k \in DOMAIN best_combination :
        IF Priority[best_combination[k].task] >= 100
        THEN run_allocations'[best_combination[k].task] =
                run_allocations[best_combination[k].task]
                    + QtyInCombination(best_combination, best_combination[k].task)
        ELSE /\ run_allocations'[best_combination[k].task] =
                    run_allocations[best_combination[k].task]
             /\ MapQty(lay_assignments', best_combination[k].task) =
                    MapQty(lay_assignments, best_combination[k].task)

UrgentSubsetOf(best_combination) ==
    (UrgentMixedFailingMajority(best_combination) /\ NextLayStage # 0)
        => OnlyUrgentCommitted(best_combination)

UrgentSubsetStep ==
    (pc = "group_loop" /\ GroupLoopRuns)
        => UrgentSubsetOf(find_best_a3_combination(remaining_tasks, run_allocations))

\* C19: when the selected combination of the group loop holds a job of priority
\* >= 100 together with non-urgent jobs and fails the majority test, the step
\* commits only the pairs of the urgent jobs: run_allocations and
\* lay_assignments of the non-urgent jobs of the combination stay as they were.
C19_OnlyUrgentSubsetCommitted == [][UrgentSubsetStep]_vars

\* the A3 jobs of a pool that have no available quantity left
A3WithoutQuantity(pool) ==
    {id \in {pool[i] : i \in DOMAIN pool} :
        tasks[id].size = "a3" /\ Available(run_allocations)[id] = 0}

\* C20: an A3 job whose available quantity is 0 is invisible to the selector:
\* the combination selected for the pool of a group is the combination selected
\* for the same pool without that job, under the same run_allocations.
C20_A3WithoutQuantityInvisible ==
    pc = "group_loop" =>
        \A id \in A3WithoutQuantity(remaining_tasks) :
            find_best_a3_combination(remaining_tasks, run_allocations)
                = find_best_a3_combination(RemoveTasks(remaining_tasks, {id}),
                                           run_allocations)

\* the quantity a pool's job of the size has available, 0 for the other sizes
AvailOfSize(id, size, avail) == IF tasks[id].size = size THEN avail[id] ELSE 0

\* job pool[i] comes before job pool[j] in descending priority, ties in pool order
DrawnBefore(pool, prio, i, j) ==
    \/ prio[pool[i]] > prio[pool[j]]
    \/ prio[pool[i]] = prio[pool[j]] /\ i < j

\* a job of the combination got a quantity only after every job of its size
\* before it got all it has available
GreedyByPriority(combination, pool, avail, prio) ==
    \A i, j \in DOMAIN pool :
        (/\ tasks[pool[i]].size = tasks[pool[j]].size
         /\ QtyInCombination(combination, pool[j]) > 0
         /\ DrawnBefore(pool, prio, i, j))
            => QtyInCombination(combination, pool[i]) = avail[pool[i]]

\* C21: in every combination the selector returns, to the group loop or to the
\* loop of a cross pool, the jobs of one size are drawn in descending priority
\* with ties in the order of the pool: when a job receives a quantity, every job
\* of its size before it in that order receives all of its available quantity.
C21_DrawnGreedilyByPriority ==
    /\ (pc = "group_loop" /\ GroupLoopRuns) =>
            GreedyByPriority(find_best_a3_combination(remaining_tasks, run_allocations),
                             remaining_tasks, Available(run_allocations), Priority)
    /\ (pc = "cross_loop" /\ CrossLoopRuns) =>
            GreedyByPriority(find_best_cross_compatible_combination(
                                Head(compatible_pools), run_allocations),
                             Head(compatible_pools), Available(run_allocations), Priority)

\* a sheet of two jobs of one size: the urgent one, given after the other, in
\* full, and the other one in part
C21_Witness ==
    \E i \in DOMAIN sheets : \E a, b \in DOMAIN sheets[i].selected :
        /\ tasks[sheets[i].selected[a].task].size = tasks[sheets[i].selected[b].task].size
        /\ Priority[sheets[i].selected[a].task] > Priority[sheets[i].selected[b].task]
        /\ sheets[i].selected[a].task > sheets[i].selected[b].task
        /\ sheets[i].selected[b].quantity < tasks[sheets[i].selected[b].task].quantity
        /\ SheetsOf(sheets[i].selected[b].task) = {i}

\* the quantity a combination holds of a size
QtyOfSize(combination, size) ==
    SumSeq([k \in DOMAIN combination |->
                IF tasks[combination[k].task].size = size
                THEN combination[k].quantity ELSE 0])

\* the combination holds, size by size, what the layout asks for and nothing
\* else, and the pool has at least that much of every size available
MatchesLayout(combination, layout, pool, avail) ==
    /\ \A i \in DOMAIN layout :
        /\ QtyOfSize(combination, layout[i][1]) = layout[i][2]
        /\ SumSeq([p \in DOMAIN pool |-> AvailOfSize(pool[p], layout[i][1], avail)])
                >= layout[i][2]
    /\ \A k \in DOMAIN combination :
            \E i \in DOMAIN layout : tasks[combination[k].task].size = layout[i][1]

MatchesSomeTemplate(combination, pool, avail) ==
    /\ \E t \in DOMAIN sorted_templates :
            MatchesLayout(combination, sorted_templates[t].layout, pool, avail)
    /\ \A k \in DOMAIN combination :
        /\ combination[k].quantity >= 1
        /\ combination[k].quantity <= avail[combination[k].task]
        /\ \A l \in DOMAIN combination :
                combination[l].task = combination[k].task => l = k

\* what the loop over the templates selects for a pool without A3 jobs
TemplateBased(pool, allocations) ==
    IF \E i \in DOMAIN pool : tasks[pool[i]].size = "a3" THEN <<>>
    ELSE TryTemplates(sorted_templates, 1, pool, Available(allocations), Priority,
                      <<>>, ZeroScore)

\* C22: every combination the loop over the templates selects matches one
\* template exactly: for each size of the template the quantities drawn sum to
\* the count asked for, no job of another size is in it, each job appears once
\* with a quantity from 1 to its available quantity, and the pool has at least
\* the count available for every size of the template.
C22_CombinationMatchesTemplate ==
    /\ (pc = "group_loop" /\ GroupLoopRuns) =>
            MatchesSomeTemplate(TemplateBased(remaining_tasks, run_allocations),
                                remaining_tasks, Available(run_allocations))
                \/ TemplateBased(remaining_tasks, run_allocations) = <<>>
    /\ (pc = "cross_loop" /\ CrossLoopRuns) =>
            MatchesSomeTemplate(TemplateBased(Head(compatible_pools), run_allocations),
                                Head(compatible_pools), Available(run_allocations))
                \/ TemplateBased(Head(compatible_pools), run_allocations) = <<>>

\* a committed sheet of an A4 job and six 95x95 transfers of a job that has more
C22_Witness ==
    \E i \in DOMAIN sheets :
        /\ sheets[i].combination = sheets[i].selected
        /\ QtyOfSize(sheets[i].selected, "a4") = 1
        /\ QtyOfSize(sheets[i].selected, "95x95") = 6
        /\ \E id \in TaskIds : tasks[id].size = "95x95" /\ tasks[id].quantity > 6

\* C23: no committed combination, of the group pass or of a cross pool, holds
\* two single colour jobs of different colour variants.
C23_SingleColoursNeverMixed ==
    \A i \in DOMAIN sheets : \A j, k \in DOMAIN sheets[i].combination :
        (/\ tasks[sheets[i].combination[j].task].product_type = "single_colour"
         /\ tasks[sheets[i].combination[k].task].product_type = "single_colour")
            => tasks[sheets[i].combination[j].task].color_variant
                    = tasks[sheets[i].combination[k].task].color_variant

\* the finalizer has been called and has returned
FinalizerCalled == pc = "call" /\ call.op = "finalize" /\ call.done

\* the jobs of the allocation record that are allocated in full and have no
\* entry in the map, in the order of the record
MappedJobs(assignments) ==
    UNION {{assignments[i].items[k].task_id : k \in DOMAIN assignments[i].items} :
                i \in DOMAIN assignments}
UnmappedFull(allocations, assignments) ==
    SelectSeq([id \in DOMAIN allocations |-> id],
              LAMBDA id : /\ allocations[id] >= tasks[id].quantity
                          /\ id \notin MappedJobs(assignments))

\* the columns of the queue of the call that the map does not use
UnusedQueue(assignments) ==
    SelectSeq(get_lay_stages(lay_columns, [id \in TaskIds |-> 0]),
              LAMBDA c : \A i \in DOMAIN assignments : assignments[i].stage # c)

\* the k-th job of the fallback is in the k-th unused column, when there is one
FallbackInOrder(jobs, queue) ==
    \A k \in DOMAIN jobs : k <= Len(queue) => stage_id[jobs[k]] = queue[k]

\* C24: given an allocation record in which a job allocated in full has no
\* entry in the map, the fallback loop of the finalizer moves that job to the
\* next column of the queue, in its original order, that neither the map nor an
\* earlier step of the fallback has used.
C24_FallbackTakesUnusedColumn ==
    FinalizerCalled =>
        FallbackInOrder(UnmappedFull(call.allocations, call.assignments),
                        UnusedQueue(call.assignments))

\* the tasks a LAY column holds: those of the store and those of the run
TasksInColumn(c) == lay_columns[c] + Cardinality({id \in TaskIds : stage_id[id] = c})

\* C25: after finalization no LAY column holds more tasks than the limit of 20
\* used to admit it to the queue, counting the tasks that rested in it at run
\* start and the tasks the run moved to it.
C25_ColumnWithinCapacity ==
    Finalized_Run =>
        \A c \in DOMAIN lay_columns :
            c \in {QueueAtStart[k] : k \in DOMAIN QueueAtStart}
                => TasksInColumn(c) <= OVERLOAD_LIMIT

\* C26: in every state of a run the number of committed sheets that went to one
\* LAY column is at most the cap of 12.
C26_SheetsPerColumnWithinCap ==
    \A c \in DOMAIN lay_columns : SheetsIn(c, Len(sheets)) <= MAX_SHEETS_PER_LAY

\* a column that took 12 sheets, and a further sheet that went to another column
C26_Witness ==
    \E c \in DOMAIN lay_columns :
        /\ SheetsIn(c, Len(sheets)) = MAX_SHEETS_PER_LAY
        /\ \E i \in DOMAIN sheets : i > MAX_SHEETS_PER_LAY /\ sheets[i].stage # c

\* the jobs the finalizer has moved
MovedJobs == {id \in TaskIds : stage_id[id] # StageAtStart[id]}

\* C27: every job is moved at most once in a run and counted at most once in
\* the count of moved jobs, also when its quantity went to several sheets or
\* columns: a job's stage changes only in the finalizer and only from the stage
\* it had at run start, the count is the number of moved jobs, and a job whose
\* quantity is spread over several columns is moved to the column that was
\* taken first among them.
C27_MovedOnceToEarliestColumn ==
    /\ [](Finalized_Run =>
            /\ result.tasks = Cardinality(MovedJobs)
            /\ \A id \in MovedJobs :
                /\ SheetsOf(id) # {}
                /\ stage_id[id] = sheets[SetMin(SheetsOf(id))].stage)
    /\ [][\A id \in TaskIds :
            stage_id'[id] # stage_id[id]
                => pc = "finalize" /\ stage_id[id] = StageAtStart[id]]_vars

\* a moved job whose sheets went to two columns
C27_Witness ==
    /\ Finalized_Run
    /\ \E id \in MovedJobs : \E i, j \in SheetsOf(id) : sheets[i].stage # sheets[j].stage

\* the sizes of a combination in the order they come in it
RECURSIVE SizesOf(_, _)
SizesOf(combination, seen) ==
    IF combination = <<>> THEN <<>>
    ELSE IF tasks[Head(combination).task].size \in seen
         THEN SizesOf(Tail(combination), seen)
         ELSE <<tasks[Head(combination).task].size>>
                \o SizesOf(Tail(combination),
                           seen \cup {tasks[Head(combination).task].size})

\* the layout of a combination: for every size the sum of its quantities
LayoutOfSizes(sizes, combination) ==
    [k \in DOMAIN sizes |-> <<sizes[k], QtyOfSize(combination, sizes[k])>>]
LayoutOf(combination) == LayoutOfSizes(SizesOf(combination, {}), combination)

\* C28: every committed combination fits on one sheet: the utilization computed
\* for its layout of sizes and summed quantities is greater than 0, for the
\* combinations of the templates, of the single-size fallback and of A3 alike.
C28_CommittedCombinationFits ==
    \A i \in DOMAIN sheets :
        calculate_template_utilization(LayoutOf(sheets[i].combination)) > 0

\* a committed sheet of the fallback that is full: as many 60x60 transfers as a
\* sheet takes, of a size no template serves alone
C28_Witness ==
    \E i \in DOMAIN sheets :
        /\ QtyOfSize(sheets[i].combination, "60x60") = get_fits_on_a3("60x60")
        /\ calculate_template_utilization(LayoutOf(sheets[i].combination)) > 0

\* the group of the job holds an A3 job of priority below 100
GroupHoldsPlainA3(id) ==
    \E other \in TaskIds :
        /\ tasks[other].size = "a3"
        /\ Priority[other] < 100
        /\ GroupKey(tasks[other]) = GroupKey(tasks[id])

\* C29: when a compatibility group holds an A3 job of priority below 100, the
\* group pass allocates nothing to the jobs of the other sizes of that group,
\* whatever the number of LAY columns: no sheet of the group pass holds such a
\* job.
C29_PlainA3BlocksGroup ==
    \A i \in DOMAIN sheets : sheets[i].pass = "group" =>
        \A k \in DOMAIN sheets[i].combination :
            tasks[sheets[i].combination[k].task].size # "a3"
                => ~GroupHoldsPlainA3(sheets[i].combination[k].task)

\* a finished run with columns to spare that committed an urgent A3 job and
\* left the A4 job of the group of a plain A3 job without any allocation
C29_Witness ==
    /\ Finalized_Run
    /\ AvailableSlots >= 3
    /\ \E i \in DOMAIN sheets : sheets[i].pass = "group"
    /\ \E id, other \in TaskIds :
        /\ tasks[id].size = "a4" /\ ~tasks[id].in_lay
        /\ tasks[other].size = "a3" /\ ~tasks[other].in_lay /\ Priority[other] < 100
        /\ GroupKey(tasks[other]) = GroupKey(tasks[id])
        /\ run_allocations[id] = 0

\* the last column of the queue the run is given, 0 when the queue is empty
LastOfQueue == IF QueueAtStart = <<>> THEN 0 ELSE QueueAtStart[Len(QueueAtStart)]

\* C30: once the last column has been taken from the queue at most one more
\* combination is committed in the whole run: the last column of the queue
\* receives at most one sheet and no sheet is committed after it, by any group
\* or pool, although the column is below the cap of 12 sheets.
C30_LastColumnTakesOneSheet ==
    \A i \in DOMAIN sheets : sheets[i].stage = LastOfQueue => i = Len(sheets)

\* a finished run of several columns whose last column took its one sheet while
\* a quantity stayed unallocated
C30_Witness ==
    /\ Finalized_Run
    /\ Len(QueueAtStart) >= 2
    /\ sheets # <<>>
    /\ sheets[Len(sheets)].stage = LastOfQueue
    /\ result.remaining > 0
    /\ \E id \in TaskIds : run_allocations[id] = 0 /\ RemainingAtStart[id] > 0

=============================================================================
